---- MODULE Spec2Model ----
(***************************************************************************)
(* Model of the hybrid retrieval and corrective-gating pipeline of the     *)
(* RAG sources application (backend/services and backend/api).             *)
(*                                                                         *)
(* Numbers: cosine similarities and thresholds are integers in thousandths *)
(* (0.20 is 200); RRF scores are exact rationals [num, den].               *)
(* Strings of the segmenter are sequences of one-character strings.        *)
(***************************************************************************)
EXTENDS Integers, Sequences, FiniteSets, TLC

VARIABLES
    seg_pc,        \* position in _recursive_split: "idle", "start", "loop", "done"
    seg_text,      \* argument text
    seg_size,      \* argument chunk_size
    seg_overlap,   \* argument overlap
    seg_rest,      \* local text_to_process
    seg_chunks,    \* local chunks (the returned list once seg_pc = "done")
    g_pc,          \* CRAGEvaluator.evaluate: "idle", "start", "done"
    g_chunks,      \* argument retrieved_chunks
    g_threshold,   \* argument threshold (NoneVal when the caller gives none)
    g_sim,         \* cosine similarity of the query and each chunk's text
    g_status,      \* returned crag_status
    g_passing,     \* returned filtered_chunks
    r_pc,          \* reciprocal_rank_fusion: "idle", "start", "done"
    r_lists,       \* argument result_lists
    r_k,           \* argument k (NoneVal when the caller gives none)
    r_out,         \* returned list
    bm_ids,        \* BM25Store._chunk_ids
    bm_texts,      \* BM25Store._chunk_texts
    bm_metas,      \* BM25Store._chunk_metadatas
    bm_model,      \* BM25Store._bm25: NoneVal, or Some(tokenized corpus it was built from)
    bm_file,       \* the persisted index file at settings.bm25_index_path
    bm_op,         \* the last operation on the store and how it ended (and
                   \* the query, when it was a search)
    bm_results,    \* the list the last operation returned, when it was a search
    bm_deleted,    \* deletions completed and not undone by a later add or rebuild:
                   \* [doc, removed], removed = the call removed entries
    vs_ids,        \* chunk ids held by the semantic index (VectorStore)
    q_pc,          \* POST /query: "idle", "retrieved", "gated", "answered";
                   \* "failed": the retrieval raised; "raised": evaluate raised
    q_request,     \* the QueryRequest
    q_sim,         \* cosine similarity of the question and each chunk's text
    q_semantic,    \* list returned by vector_store.search
    q_lexical,     \* list returned by bm25_store.search
    q_fetch_k,     \* the top_k handed to the two searches
    q_results,     \* list returned by hybrid_search.search
    q_status,      \* crag_status
    q_passing,     \* filtered_chunks
    q_embed_fail,  \* the embedding call of evaluate that failed (NoneVal: none)
    q_llm_fail,    \* the call to the LLM provider failed
    q_response,    \* the QueryResponse returned (NoneVal: none yet)
    q_llm_called,  \* the request has called the LLM provider
    reg_names,     \* CollectionRegistry._collections
    reg_file,      \* the names in the registry's JSON file
    reg_last,      \* the last call on the registry: [op, name]
    emb_model,     \* EmbeddingService._model: NoneVal or Some(construction number)
    emb_lock,      \* EmbeddingService._lock: NoneVal or Some(holding thread)
    emb_pc,        \* the position of each thread in load / embed
    emb_obj,       \* the model a thread has constructed and not yet assigned
    emb_used,      \* the model the thread's last encode ran on
    emb_constructed, \* the number of models constructed so far
    emb_calls,     \* the number of calls each thread has made
    api_last,      \* the last index-changing request: [request, outcome]
    c_pc,          \* the statement each thread calling the lexical index is at
    c_loc,         \* the call's arguments and local variables, per thread
    c_ops          \* the number of calls each thread has made

segVars == <<seg_pc, seg_text, seg_size, seg_overlap, seg_rest, seg_chunks>>
gateVars == <<g_pc, g_chunks, g_threshold, g_sim, g_status, g_passing>>
rrfVars == <<r_pc, r_lists, r_k, r_out>>
bmVars == <<bm_ids, bm_texts, bm_metas, bm_model, bm_file, bm_op, bm_results,
            bm_deleted>>
queryVars == <<vs_ids, q_pc, q_request, q_sim, q_semantic, q_lexical, q_fetch_k,
               q_results, q_status, q_passing, q_embed_fail, q_llm_fail,
               q_response, q_llm_called>>

regVars == <<reg_names, reg_file, reg_last>>

\* the services the retrieval pipeline does not go through
embVars == <<emb_model, emb_lock, emb_pc, emb_obj, emb_used, emb_constructed,
             emb_calls>>

apiVars == <<api_last>>

concVars == <<c_pc, c_loc, c_ops>>

svcVars == <<regVars, embVars, apiVars, concVars>>

vars == <<seg_pc, seg_text, seg_size, seg_overlap, seg_rest, seg_chunks,
          g_pc, g_chunks, g_threshold, g_sim, g_status, g_passing,
          r_pc, r_lists, r_k, r_out,
          bm_ids, bm_texts, bm_metas, bm_model, bm_file, bm_op, bm_results,
          bm_deleted,
          vs_ids, q_pc, q_request, q_sim, q_semantic, q_lexical, q_fetch_k,
          q_results, q_status, q_passing, q_embed_fail, q_llm_fail,
          q_response, q_llm_called,
          reg_names, reg_file, reg_last,
          emb_model, emb_lock, emb_pc, emb_obj, emb_used, emb_constructed,
          emb_calls, api_last, c_pc, c_loc, c_ops>>

(***************************************************************************)
(* Bounds                                                                  *)
(***************************************************************************)
MaxTextLen == 5
MaxChunkSize == 3
MaxOverlap == 2
MaxGateChunks == 4
MaxLists == 2
MaxListLen == 3
MaxCorpus == 2
MaxBatch == 1
MaxNameLen == 2
MaxCalls == 2
MaxOps == 1

\* an optional argument: Python's None, or a given value v as Some(v)
NoneVal == <<>>
Some(v) == <<v>>

Min(a, b) == IF a <= b THEN a ELSE b
Max(a, b) == IF a >= b THEN a ELSE b

\* variant: a stable sort by ascending key
StableAsc(seq, keys) ==
    LET n == Len(seq)
        rank(i) == 1 + Cardinality({j \in 1..n :
                          \/ keys[j] < keys[i]
                          \/ keys[j] = keys[i] /\ j < i})
    IN  [p \in 1..n |-> seq[CHOOSE i \in 1..n : rank(i) = p]]

\* list.sort(key=..., reverse=True) and sorted(..., reverse=True): a stable
\* sort by descending key; keys[i] is the key of seq[i]
StableDesc(seq, keys) ==
    LET n == Len(seq)
        rank(i) == 1 + Cardinality({j \in 1..n :
                          \/ keys[j] > keys[i]
                          \/ keys[j] = keys[i] /\ j < i})
    IN  [p \in 1..n |-> seq[CHOOSE i \in 1..n : rank(i) = p]]

RECURSIVE SumOver(_, _)
SumOver(S, f) ==
    IF S = {} THEN 0
    ELSE LET x == CHOOSE y \in S : TRUE IN f[x] + SumOver(S \ {x}, f)

RECURSIVE ProductTo(_, _)
ProductTo(k, n) == IF n = 0 THEN 1 ELSE (k + n) * ProductTo(k, n - 1)

(***************************************************************************)
(* Text segmenter: services/ingestion.py, _recursive_split                 *)
(***************************************************************************)
\* a letter, the characters of the four boundaries, and a tab: whitespace
\* for str.strip() that is part of no boundary
Alphabet == {"a", ".", " ", "\n", "\t"}
Whitespace == {" ", "\n", "\t"}

Texts == UNION {[1..n -> Alphabet] : n \in 0..MaxTextLen}

\* s[from:to] of Python for 0 <= from, 0 <= to
Slice(s, from, to) == SubSeq(s, from + 1, Min(to, Len(s)))

\* str.strip(): drop leading and trailing whitespace
RECURSIVE LStrip(_)
LStrip(s) == IF s # <<>> /\ Head(s) \in Whitespace THEN LStrip(Tail(s)) ELSE s

RECURSIVE RStrip(_)
RStrip(s) ==
    IF s # <<>> /\ s[Len(s)] \in Whitespace
    THEN RStrip(SubSeq(s, 1, Len(s) - 1)) ELSE s

\* variant: only leading whitespace is dropped
StripLeftOnly(s) == LStrip(s)

Strip(s) == RStrip(LStrip(s))

\* str.rfind(b, 0, end): highest 0-based index at which b lies wholly
\* inside s[0:end], or -1
RFind(s, b, end) ==
    LET lim == Min(end, Len(s))
        hits == {i \in 0..(lim - Len(b)) : SubSeq(s, i + 1, i + Len(b)) = b}
    IN  IF hits = {} THEN -1 ELSE CHOOSE i \in hits : \A j \in hits : j <= i

boundaries == << <<"\n", "\n">>, <<"\n">>, <<".", " ">>, <<" ">>, <<>> >>

\* the for-loop over boundaries, from boundary number n on
RECURSIVE SplitFrom(_, _, _)
SplitFrom(t, size, n) ==
    IF boundaries[n] = <<>>
    THEN size
    ELSE LET last_b_idx == RFind(t, boundaries[n], size)
         IN  IF last_b_idx # -1
             THEN last_b_idx + Len(boundaries[n])
             ELSE SplitFrom(t, size, n + 1)

SplitIdxHardCutLate(t, size) ==
    IF \A n \in 1..4 : RFind(t, boundaries[n], size) = -1
    THEN size + 1 ELSE SplitFrom(t, size, 1)

SplitIdx(t, size) == SplitFrom(t, size, 1)

NextRest(t, split_idx, overlap) == Slice(t, Max(0, split_idx - overlap), Len(t))

\* _recursive_split up to the while loop (the two early returns)
SegEnter ==
    /\ seg_pc = "start"
    /\ IF seg_text = <<>> \/ Strip(seg_text) = <<>>
       THEN /\ seg_chunks' = <<>>
            /\ seg_rest' = <<>>
            /\ seg_pc' = "done"
       ELSE IF Len(seg_text) <= seg_size
       THEN /\ seg_chunks' = <<Strip(seg_text)>>
            /\ seg_rest' = <<>>
            /\ seg_pc' = "done"
       ELSE /\ seg_chunks' = <<>>
            /\ seg_rest' = seg_text
            /\ seg_pc' = "loop"
    /\ UNCHANGED <<seg_text, seg_size, seg_overlap>>

\* one iteration of the while loop; a run that makes no progress appends a
\* chunk per iteration without end, the model stops it after MaxTextLen + 1
SegStep ==
    /\ seg_pc = "loop"
    /\ Len(seg_rest) > seg_size
    /\ Len(seg_chunks) <= MaxTextLen
    /\ LET split_idx == SplitIdx(seg_rest, seg_size)
           chunk == Strip(Slice(seg_rest, 0, split_idx))
       IN  /\ seg_chunks' = IF chunk # <<>> THEN Append(seg_chunks, chunk)
                                            ELSE seg_chunks
           /\ seg_rest' = NextRest(seg_rest, split_idx, seg_overlap)
    /\ UNCHANGED <<seg_pc, seg_text, seg_size, seg_overlap>>

\* loop exit and the trailing remainder
SegFinish ==
    /\ seg_pc = "loop"
    /\ Len(seg_rest) <= seg_size
    /\ seg_chunks' = IF Strip(seg_rest) # <<>>
                     THEN Append(seg_chunks, Strip(seg_rest))
                     ELSE seg_chunks
    /\ seg_pc' = "done"
    /\ UNCHANGED <<seg_text, seg_size, seg_overlap, seg_rest>>

(***************************************************************************)
(* Fusion ranker: services/hybrid_search.py, reciprocal_rank_fusion        *)
(***************************************************************************)
rrf_k == 60

\* every 1/(k + rank) of one call is held over the common denominator
\* (k+1)(k+2)...(k+n), n the length of the longest input list
MaxLen(result_lists) ==
    IF result_lists = <<>> THEN 0
    ELSE LET lens == {Len(result_lists[l]) : l \in 1..Len(result_lists)}
         IN  CHOOSE m \in lens : \A x \in lens : x <= m

RRFDen(result_lists, k) == ProductTo(k, MaxLen(result_lists))

\* the positions visited by the two nested for-loops, in order
RECURSIVE Occurrences(_, _)
Occurrences(result_lists, l) ==
    IF l > Len(result_lists) THEN <<>>
    ELSE [r \in 1..Len(result_lists[l]) |->
              [rank |-> r, doc |-> result_lists[l][r]]]
         \o Occurrences(result_lists, l + 1)

\* the loop body: rrf_scores[doc_id] = rrf_scores.get(doc_id, 0.0) + 1/(k+rank)
\* and docs[doc_id] = doc when doc_id is new
AccumulateOverwrite(acc, occ, k, den) ==
    LET doc_id == occ.doc.id
        add == den \div (k + occ.rank)
    IN  IF doc_id \in DOMAIN acc.docs
        THEN [acc EXCEPT !.rrf_scores[doc_id] = add]
        ELSE [order |-> Append(acc.order, doc_id),
              rrf_scores |-> acc.rrf_scores @@ (doc_id :> add),
              docs |-> acc.docs @@ (doc_id :> occ.doc)]

Accumulate(acc, occ, k, den) ==
    LET doc_id == occ.doc.id
        add == den \div (k + occ.rank)
    IN  IF doc_id \in DOMAIN acc.docs
        THEN [acc EXCEPT !.rrf_scores[doc_id] = @ + add]
        ELSE [order |-> Append(acc.order, doc_id),
              rrf_scores |-> acc.rrf_scores @@ (doc_id :> add),
              docs |-> acc.docs @@ (doc_id :> occ.doc)]

RECURSIVE FuseLoop(_, _, _, _, _)
FuseLoop(occs, i, acc, k, den) ==
    IF i > Len(occs) THEN acc
    ELSE FuseLoop(occs, i + 1, Accumulate(acc, occs[i], k, den), k, den)

reciprocal_rank_fusion(result_lists, k_arg) ==
    LET k == IF k_arg = NoneVal THEN rrf_k ELSE k_arg[1]
        den == RRFDen(result_lists, k)
        acc == FuseLoop(Occurrences(result_lists, 1), 1,
                        [order |-> <<>>, rrf_scores |-> <<>>, docs |-> <<>>],
                        k, den)
        sorted_ids == StableDesc(acc.order,
                          [p \in 1..Len(acc.order) |-> acc.rrf_scores[acc.order[p]]])
    IN  [p \in 1..Len(sorted_ids) |->
            [rrf_score |-> [num |-> acc.rrf_scores[sorted_ids[p]], den |-> den]]
            @@ acc.docs[sorted_ids[p]]]

Fuse ==
    /\ r_pc = "start"
    /\ r_out' = reciprocal_rank_fusion(r_lists, r_k)
    /\ r_pc' = "done"
    /\ UNCHANGED <<r_lists, r_k>>

(***************************************************************************)
(* Relevance gate: services/crag.py, CRAGEvaluator.evaluate                *)
(***************************************************************************)
crag_relevance_threshold == 200
RRFBoost == 50

\* chunk.get("rrf_score", 0.0)
RRFScoreOf(chunk) ==
    IF "rrf_score" \in DOMAIN chunk THEN chunk.rrf_score
    ELSE [num |-> 0, den |-> 1]

\* rrf_score > 0.01
RankedHighly(chunk) == RRFScoreOf(chunk).num * 100 > RRFScoreOf(chunk).den

\* combined = direct_similarity + (0.05 if rrf_score > 0.01 else 0.0)
Combined(chunk, sim) ==
    sim[chunk.id] + (IF RankedHighly(chunk) THEN RRFBoost ELSE 0)

\* threshold = threshold or settings.crag_relevance_threshold: None and 0.0
\* are both falsy
EffectiveThreshold(threshold) ==
    IF threshold = NoneVal \/ threshold = Some(0)
    THEN crag_relevance_threshold ELSE threshold[1]

\* variant of the status rule: grounded only when every chunk passes
GroundedAtAll(n_pass, n_total) == n_pass = n_total

\* pass_ratio = len(passing) / len(scored_chunks); pass_ratio >= 0.5
GroundedAt(n_pass, n_total) == 2 * n_pass >= n_total

evaluate(retrieved_chunks, threshold_arg, sim) ==
    IF retrieved_chunks = <<>>
    THEN [status |-> "insufficient", passing |-> <<>>]
    ELSE LET threshold == EffectiveThreshold(threshold_arg)
             scored == [i \in 1..Len(retrieved_chunks) |->
                           [relevance |-> Combined(retrieved_chunks[i], sim)]
                           @@ retrieved_chunks[i]]
             is_pass(c) == c.relevance >= threshold
             passing == SelectSeq(scored, is_pass)
         IN  IF passing = <<>>
             THEN [status |-> "insufficient", passing |-> <<>>]
             ELSE [status |-> IF GroundedAt(Len(passing), Len(retrieved_chunks))
                              THEN "grounded" ELSE "partial",
                   passing |-> StableDesc(passing,
                       [i \in 1..Len(passing) |-> passing[i].relevance])]

GateEvaluate ==
    /\ g_pc = "start"
    /\ LET res == evaluate(g_chunks, g_threshold, g_sim)
       IN  /\ g_status' = res.status
           /\ g_passing' = res.passing
    /\ g_pc' = "done"
    /\ UNCHANGED <<g_chunks, g_threshold, g_sim>>

\* variant: a failed embedding call is answered with "insufficient"
EvaluateCallSwallowsFailure(retrieved_chunks, threshold_arg, sim, embed_fail) ==
    IF retrieved_chunks # <<>> /\ embed_fail # NoneVal
    THEN [raised |-> FALSE, status |-> "insufficient", passing |-> <<>>]
    ELSE [raised |-> FALSE] @@ evaluate(retrieved_chunks, threshold_arg, sim)

\* evaluate with an embedding service that may fail: embed_fail is NoneVal,
\* or Some(n) when the n-th embedding call raises (0: embed_single(query),
\* i: embed_single of the text of chunk i). No call is made for an empty
\* list; evaluate has no try block, the exception leaves it
EvaluateCall(retrieved_chunks, threshold_arg, sim, embed_fail) ==
    IF retrieved_chunks # <<>> /\ embed_fail # NoneVal
    THEN [raised |-> TRUE, status |-> "unset", passing |-> <<>>]
    ELSE [raised |-> FALSE] @@ evaluate(retrieved_chunks, threshold_arg, sim)

(***************************************************************************)
(* Chunks produced by ingestion: services/ingestion.py, _chunk_pages       *)
(* A text is the sequence of its words.                                    *)
(***************************************************************************)
ChunkIds == {"c1", "c2", "c3", "c4"}
DocumentIds == {"d1", "d2"}

DocumentOf(c) == IF c = "c4" THEN "d2" ELSE "d1"
CollectionOf(d) == IF d = "d2" THEN "other" ELSE "default"

TextOf(c) ==
    CASE c = "c1" -> <<"Hybrid", "search">>
      [] c = "c2" -> <<"BM25", "de", "a">>
      [] c = "c3" -> <<"search", "index">>
      [] OTHER    -> <<"la", "index">>

Chunk(c) ==
    [chunk_id |-> c,
     text |-> TextOf(c),
     metadata |-> [document_id |-> DocumentOf(c),
                   collection_name |-> CollectionOf(DocumentOf(c))]]

(***************************************************************************)
(* Lexical index: services/bm25_store.py                                   *)
(***************************************************************************)
stop_words == {"de", "la", "el", "en", "y", "a", "los", "las", "un", "una",
               "que", "es", "del"}

\* str.lower() on the words of the model
Lower(w) ==
    CASE w = "Hybrid" -> "hybrid"
      [] w = "BM25" -> "bm25"
      [] w = "Search" -> "search"
      [] w = "Index" -> "index"
      [] OTHER -> w

\* _tokenize: lower-case, keep the words that are no stop word and longer
\* than one character
_tokenize(text) ==
    LET lowered == [i \in 1..Len(text) |-> Lower(text[i])]
        keep(t) == t \notin stop_words /\ Len(t) > 1
    IN  SelectSeq(lowered, keep)

\* _rebuild_bm25
RebuiltModel(texts) ==
    IF texts = <<>> THEN NoneVal
    ELSE Some([i \in 1..Len(texts) |-> _tokenize(texts[i])])

\* variant: the pickled dictionary holds no metadatas
SavedFileWithoutMetadatas(ids, texts, metas) ==
    [exists |-> TRUE, damage |-> "none",
     ids |-> ids, texts |-> texts, metadatas |-> <<>>]

\* the dictionary _save pickles
SavedFile(ids, texts, metas) ==
    [exists |-> TRUE, damage |-> "none",
     ids |-> ids, texts |-> texts, metadatas |-> metas]

NoFile ==
    [exists |-> FALSE, damage |-> "none",
     ids |-> <<>>, texts |-> <<>>, metadatas |-> <<>>]

\* add_chunks
AddChunks(chunks) ==
    /\ Len(bm_ids) + Len(chunks) <= MaxCorpus
    /\ LET ids == bm_ids \o [i \in 1..Len(chunks) |-> chunks[i].chunk_id]
           texts == bm_texts \o [i \in 1..Len(chunks) |-> chunks[i].text]
           metas == bm_metas \o [i \in 1..Len(chunks) |-> chunks[i].metadata]
       IN  /\ bm_ids' = ids
           /\ bm_texts' = texts
           /\ bm_metas' = metas
           /\ bm_model' = RebuiltModel(texts)
           /\ bm_file' = SavedFile(ids, texts, metas)
    /\ bm_op' = [name |-> "add_chunks", ok |-> TRUE]
    /\ bm_deleted' = {r \in bm_deleted : r.doc \notin
          {chunks[i].metadata.document_id : i \in 1..Len(chunks)}}
    /\ bm_results' = <<>>

\* indices_to_keep of delete_document, as 1-based positions
IndicesToKeepButFirst(metas, document_id) ==
    LET hit == {i \in 1..Len(metas) : metas[i].document_id = document_id}
    IN  SelectSeq([i \in 1..Len(metas) |-> i],
                  LAMBDA i : i \notin hit \/ \E j \in hit : j < i)

IndicesToKeep(metas, document_id) ==
    SelectSeq([i \in 1..Len(metas) |-> i],
              LAMBDA i : metas[i].document_id # document_id)

\* delete_document
DeleteDocument(document_id) ==
    LET indices_to_keep == IndicesToKeep(bm_metas, document_id)
        n == Len(indices_to_keep)
    IN  /\ IF n = Len(bm_ids)
           THEN UNCHANGED <<bm_ids, bm_texts, bm_metas, bm_model, bm_file>>
           ELSE LET ids == [p \in 1..n |-> bm_ids[indices_to_keep[p]]]
                    texts == [p \in 1..n |-> bm_texts[indices_to_keep[p]]]
                    metas == [p \in 1..n |-> bm_metas[indices_to_keep[p]]]
                IN  /\ bm_ids' = ids
                    /\ bm_texts' = texts
                    /\ bm_metas' = metas
                    /\ bm_model' = RebuiltModel(texts)
                    /\ bm_file' = SavedFile(ids, texts, metas)
        /\ bm_op' = [name |-> "delete_document", ok |-> TRUE]
        /\ bm_deleted' = {r \in bm_deleted : r.doc # document_id}
                            \cup {[doc |-> document_id,
                                    removed |-> n # Len(bm_ids)]}
        /\ bm_results' = <<>>

\* rebuild_from_store
RebuildFromStore(all_chunks) ==
    /\ LET ids == [i \in 1..Len(all_chunks) |-> all_chunks[i].id]
           texts == [i \in 1..Len(all_chunks) |-> all_chunks[i].text]
           metas == [i \in 1..Len(all_chunks) |-> all_chunks[i].metadata]
       IN  /\ bm_ids' = ids
           /\ bm_texts' = texts
           /\ bm_metas' = metas
           /\ bm_model' = RebuiltModel(texts)
           /\ bm_file' = SavedFile(ids, texts, metas)
    /\ bm_op' = [name |-> "rebuild_from_store", ok |-> TRUE]
    /\ bm_deleted' = {r \in bm_deleted : r.doc \notin
          {all_chunks[i].metadata.document_id : i \in 1..Len(all_chunks)}}
    /\ bm_results' = <<>>

\* seq[:k] of Python
Take(seq, k) ==
    IF k >= 0 THEN SubSeq(seq, 1, Min(k, Len(seq)))
    ELSE SubSeq(seq, 1, Max(0, Len(seq) + k))

\* BM25Okapi.get_scores (rank_bm25): one raw score per document of the
\* corpus the model was built from; a document sharing no token with the
\* query scores 0, any other score is up to the library's idf weights,
\* which can be negative
RawScores == {-1, 1, 2}

SharesToken(doc_tokens, query_tokens) ==
    \E a \in 1..Len(doc_tokens) : \E b \in 1..Len(query_tokens) :
        doc_tokens[a] = query_tokens[b]

GetScores(corpus, query_tokens) ==
    {scores \in [1..Len(corpus) -> RawScores \cup {0}] :
        \A i \in 1..Len(corpus) :
            scores[i] = 0 <=> ~SharesToken(corpus[i], query_tokens)}

\* variant: the smallest raw score
MinOf(scores) ==
    CHOOSE m \in {scores[i] : i \in DOMAIN scores} :
        \A i \in DOMAIN scores : m <= scores[i]

MaxOf(scores) ==
    CHOOSE m \in {scores[i] : i \in DOMAIN scores} :
        \A i \in DOMAIN scores : scores[i] <= m

\* `if collection_name and ...`: None and "" do not filter
Filters(collection_name) ==
    collection_name # NoneVal /\ collection_name[1] # ""

\* search from "Normalize scores" on (lines 91-115), given the raw scores
\* the model returned: the hits, or raised = TRUE when a list index is out
\* of range
CollectHits(ids, texts, metas, collection_name, top_k, scores) ==
    LET max_score == IF MaxOf(scores) > 0 THEN MaxOf(scores) ELSE 1
        \* normalized = score / max_score; skipped when <= 0.001
        scored == {i \in DOMAIN scores : ~(1000 * scores[i] <= max_score)}
        wanted == {i \in scored :
                     i <= Len(metas) =>
                        ~(Filters(collection_name)
                          /\ metas[i].collection_name # collection_name[1])}
        out_of_range ==
           \/ \E i \in scored : i > Len(metas)
           \/ \E i \in wanted : i > Len(ids) \/ i > Len(texts)
        hits == [p \in 1..Cardinality(wanted) |->
                   LET i == CHOOSE j \in wanted :
                               Cardinality({x \in wanted : x < j}) = p - 1
                   IN  [id |-> ids[i], text |-> texts[i],
                        metadata |-> metas[i],
                        score |-> [num |-> scores[i], den |-> max_score]]]
    IN  IF out_of_range
        THEN [raised |-> TRUE, hits |-> <<>>]
        ELSE [raised |-> FALSE,
              hits |-> Take(StableDesc(hits,
                           [p \in 1..Len(hits) |-> hits[p].score.num]),
                            top_k)]

\* search, given the raw scores the model returned
BM25Search(ids, texts, metas, model, collection_name, top_k, scores) ==
    IF model = NoneVal \/ texts = <<>>
    THEN [raised |-> FALSE, hits |-> <<>>]
    ELSE CollectHits(ids, texts, metas, collection_name, top_k, scores)

Search(query, collection_name, top_k) ==
    /\ \E scores \in IF bm_model = NoneVal THEN {<<>>}
                     ELSE GetScores(bm_model[1], _tokenize(query)) :
          LET res == BM25Search(bm_ids, bm_texts, bm_metas, bm_model,
                                collection_name, top_k, scores)
          IN  /\ bm_results' = res.hits
              /\ bm_op' = [name |-> "search", ok |-> ~res.raised,
                            query |-> query]
    /\ UNCHANGED <<bm_ids, bm_texts, bm_metas, bm_model, bm_file, bm_deleted>>

\* what the file holds under a key, when open, pickle.load and the key
\* lookup succeed
Readable(file, key) ==
    /\ file.damage # "unreadable"
    /\ file.damage # key

\* BM25Store.__init__ and _load in a new process; rebuild_fails: the
\* construction of BM25Okapi raises
Load(rebuild_fails) ==
    LET got_ids == bm_file.exists /\ Readable(bm_file, "ids")
        got_texts == got_ids /\ Readable(bm_file, "texts")
        got_metas == got_texts /\ Readable(bm_file, "metadatas")
        texts == IF got_texts THEN bm_file.texts ELSE <<>>
        rebuilt == got_metas /\ ~(rebuild_fails /\ texts # <<>>)
    IN  /\ rebuild_fails => got_metas /\ texts # <<>>
        /\ bm_ids' = IF got_ids THEN bm_file.ids ELSE <<>>
        /\ bm_texts' = texts
        /\ bm_metas' = IF got_metas THEN bm_file.metadatas ELSE <<>>
        /\ bm_model' = IF rebuilt THEN RebuiltModel(texts) ELSE NoneVal
        /\ bm_op' = [name |-> "load", ok |-> rebuilt]
        /\ bm_results' = <<>>
        /\ UNCHANGED <<bm_file, bm_deleted>>

\* the environment damages the persisted file: it becomes unreadable (not a
\* pickle, no permission) or lacks one of the three keys
FileDamages == {"unreadable", "ids", "texts", "metadatas"}

DamageFile(kind) ==
    /\ bm_file.exists
    /\ bm_file.damage = "none"
    /\ bm_file' = [bm_file EXCEPT !.damage = kind]
    /\ UNCHANGED <<bm_ids, bm_texts, bm_metas, bm_model, bm_op, bm_results,
                   bm_deleted>>

(***************************************************************************)
(* Semantic index: services/vector_store.py, VectorStore.search            *)
(***************************************************************************)
\* the lists collection.query may return: the n_results entries of the
\* collection that pass the where filter and are nearest to the query, by
\* non-increasing similarity, in any order among equals
SemanticSearch(store_ids, collection_name, top_k, sim) ==
    LET cand == {c \in store_ids :
                    Filters(collection_name) =>
                       CollectionOf(DocumentOf(c)) = collection_name[1]}
        n_results == Min(top_k, Max(1, Cardinality(store_ids)))
        n == Min(n_results, Cardinality(cand))
        nearest == {l \in [1..n -> cand] :
                      /\ \A i, j \in 1..n : i < j =>
                            l[i] # l[j] /\ sim[l[i]] >= sim[l[j]]
                      /\ \A c \in cand : (\A i \in 1..n : l[i] # c) =>
                            \A i \in 1..n : sim[c] <= sim[l[i]]}
    IN  {[i \in 1..n |->
            [id |-> l[i], text |-> TextOf(l[i]),
             metadata |-> Chunk(l[i]).metadata,
             \* similarity = 1.0 - distance / 2.0, distance = 1 - cosine
             score |-> [num |-> 1000 + sim[l[i]], den |-> 2000]]] :
         l \in nearest}

(***************************************************************************)
(* Hybrid search: services/hybrid_search.py, HybridSearch.search           *)
(***************************************************************************)
OverFetch == 3
MinFetch == 15

FetchK(top_k) == Max(top_k * OverFetch, MinFetch)

\* the part of search after the two fetches
FuseAndCut(semantic_results, bm25_results, top_k) ==
    IF semantic_results = <<>> /\ bm25_results = <<>>
    THEN <<>>
    ELSE Take(reciprocal_rank_fusion(
                  SelectSeq(<<semantic_results, bm25_results>>,
                            LAMBDA l : l # <<>>),
                  NoneVal),
              top_k)

(***************************************************************************)
(* Generator: services/generator.py                                        *)
(***************************************************************************)
\* chunk["text"][:400] + ("..." if len(chunk["text"]) > 400 else ""); the
\* texts of the model are shorter
CitationText(text) ==
    IF Len(text) > 400 THEN SubSeq(text, 1, 400) \o <<"...">> ELSE text

\* one Citation per chunk, in order; relevance_score is the chunk's relevance
\* rounded to 4 decimals (exact for thousandths)
_extract_citations(chunks) ==
    [i \in 1..Len(chunks) |->
        [document_id |-> chunks[i].metadata.document_id,
         chunk_text |-> CitationText(chunks[i].text),
         relevance_score |-> chunks[i].relevance]]

\* variant: a failed LLM call leaves the answer without citations
generate_without_citations(context_chunks, crag_status, llm_fails) ==
    IF crag_status = "insufficient"
    THEN [answer |-> "INSUFFICIENT_RESPONSE", citations |-> <<>>,
          llm_called |-> FALSE]
    ELSE [answer |-> IF llm_fails THEN "llm_error" ELSE "llm_answer",
          citations |-> IF llm_fails THEN <<>>
                        ELSE _extract_citations(context_chunks),
          llm_called |-> TRUE]

\* Generator.generate: no LLM call for "insufficient"; an exception of the
\* LLM call is caught and replaced by an error answer; the citations are
\* built either way
generate(context_chunks, crag_status, llm_fails) ==
    IF crag_status = "insufficient"
    THEN [answer |-> "INSUFFICIENT_RESPONSE", citations |-> <<>>,
          llm_called |-> FALSE]
    ELSE [answer |-> IF llm_fails THEN "llm_error" ELSE "llm_answer",
          citations |-> _extract_citations(context_chunks),
          llm_called |-> TRUE]

(***************************************************************************)
(* Query endpoint: api/query.py, query                                     *)
(***************************************************************************)
\* step 1, hybrid_search.search: both fetches with fetch_k and the request's
\* collection, then fusion and the cut to top_k
QueryRetrieve(request, sim) ==
    /\ q_pc = "idle"
    /\ q_request' = request
    /\ q_sim' = sim
    /\ LET fetch_k == FetchK(request.top_k)
       IN  /\ q_fetch_k' = fetch_k
           /\ \E sem \in SemanticSearch(vs_ids, request.collection_name,
                                        fetch_k, sim) :
              \E scores \in IF bm_model = NoneVal THEN {<<>>}
                            ELSE GetScores(bm_model[1],
                                           _tokenize(request.question)) :
                 LET lex == BM25Search(bm_ids, bm_texts, bm_metas, bm_model,
                                       request.collection_name, fetch_k, scores)
                 IN  /\ q_semantic' = sem
                     /\ q_lexical' = lex.hits
                     /\ IF lex.raised
                        THEN q_results' = <<>> /\ q_pc' = "failed"
                        ELSE /\ q_results' = FuseAndCut(sem, lex.hits,
                                                        request.top_k)
                             /\ q_pc' = "retrieved"
    /\ UNCHANGED <<vs_ids, q_status, q_passing, q_embed_fail, q_llm_fail,
                   q_response, q_llm_called>>

\* step 2, crag_evaluator.evaluate(request.question, results): no threshold
\* is passed; an exception of evaluate is caught nowhere in query
QueryGate(embed_fail) ==
    /\ q_pc = "retrieved"
    /\ q_embed_fail' = embed_fail
    /\ LET res == EvaluateCall(q_results, NoneVal, q_sim, embed_fail)
       IN  IF res.raised
           THEN /\ q_pc' = "raised"
                /\ UNCHANGED <<q_status, q_passing>>
           ELSE /\ q_pc' = "gated"
                /\ q_status' = res.status
                /\ q_passing' = res.passing
    /\ UNCHANGED <<vs_ids, q_request, q_sim, q_semantic, q_lexical, q_fetch_k,
                   q_results, q_llm_fail, q_response, q_llm_called>>

\* variant: the provider is called whatever the gate said
RespondUngated(crag_status, filtered_chunks, llm_fails) ==
    [response |-> [answer |-> IF llm_fails THEN "llm_error" ELSE "llm_answer",
                   citations |-> _extract_citations(filtered_chunks),
                   crag_status |-> crag_status],
     llm_called |-> TRUE]

\* step 3: the insufficient response without a call of the generator, or
\* generator.generate and the QueryResponse built from what it returns
Respond(crag_status, filtered_chunks, llm_fails) ==
    IF crag_status = "insufficient"
    THEN [response |-> [answer |-> "INSUFFICIENT_RESPONSE", citations |-> <<>>,
                        crag_status |-> "insufficient"],
          llm_called |-> FALSE]
    ELSE LET out == generate(filtered_chunks, crag_status, llm_fails)
         IN  [response |-> [answer |-> out.answer, citations |-> out.citations,
                            crag_status |-> crag_status],
              llm_called |-> out.llm_called]

QueryAnswer(llm_fails) ==
    /\ q_pc = "gated"
    /\ llm_fails => q_status # "insufficient"
    /\ q_llm_fail' = llm_fails
    /\ LET out == Respond(q_status, q_passing, llm_fails)
       IN  /\ q_response' = Some(out.response)
           /\ q_llm_called' = out.llm_called
    /\ q_pc' = "answered"
    /\ UNCHANGED <<vs_ids, q_request, q_sim, q_semantic, q_lexical, q_fetch_k,
                   q_results, q_status, q_passing, q_embed_fail>>

(***************************************************************************)
(* Collection registry: services/collection_registry.py                    *)
(* A name is the sequence of its characters.                               *)
(***************************************************************************)
NameAlphabet == {"d", "D", " "}

DefaultName == <<"d", "e", "f", "a", "u", "l", "t">>

\* str.lower() on the characters of the model
LowerChar(c) == IF c = "D" THEN "d" ELSE c

NameLower(name) == [i \in 1..Len(name) |-> LowerChar(name[i])]

\* name.strip().lower()
NormalizeName(name) == NameLower(Strip(name))

\* _save: the file holds the names, unless writing it fails (the exception
\* is caught and printed)
RegistrySave(names, save_ok) == IF save_ok THEN names ELSE reg_file

\* add
RegistryAdd(name, save_ok) ==
    LET normal == NormalizeName(name)
    IN  /\ IF normal = <<>>
           THEN UNCHANGED <<reg_names, reg_file>>
           ELSE /\ reg_names' = reg_names \cup {normal}
                /\ reg_file' = RegistrySave(reg_names \cup {normal}, save_ok)
        /\ reg_last' = [op |-> "add", name |-> name]

\* remove looks up the name as given
RemovedName(name) == name

\* remove
RegistryRemove(name, save_ok) ==
    /\ IF RemovedName(name) \in reg_names
       THEN /\ reg_names' = reg_names \ {RemovedName(name)}
            /\ reg_file' = RegistrySave(reg_names \ {RemovedName(name)}, save_ok)
       ELSE UNCHANGED <<reg_names, reg_file>>
    /\ reg_last' = [op |-> "remove", name |-> name]

\* __init__ in a new process: the names of the file, or "default" when
\* there are none
RegistryRestart(save_ok) ==
    /\ IF reg_file = {}
       THEN /\ reg_names' = {DefaultName}
            /\ reg_file' = RegistrySave({DefaultName}, save_ok)
       ELSE /\ reg_names' = reg_file
            /\ UNCHANGED reg_file
    /\ reg_last' = [op |-> "init", name |-> <<>>]

(***************************************************************************)
(* Embedding service: services/embeddings.py, started from main.py         *)
(* The startup thread calls load(); a request thread calls embed() (and    *)
(* embed_single, which is embed on one text).  One action is one statement *)
(* of one thread.                                                          *)
(***************************************************************************)
EmbThreads == {"startup", "request1", "request2"}

\* the state of the singleton after the module is imported
EmbFresh ==
    /\ emb_model = NoneVal
    /\ emb_lock = NoneVal
    /\ emb_pc = [t \in EmbThreads |-> "idle"]
    /\ emb_obj = [t \in EmbThreads |-> NoneVal]
    /\ emb_used = [t \in EmbThreads |-> NoneVal]
    /\ emb_constructed = 0
    /\ emb_calls = [t \in EmbThreads |-> 0]

\* where a thread goes when load() returns: back into embed, or out
AfterLoad(t) == IF t = "startup" THEN "done" ELSE "encode"

\* the thread enters load (startup) or embed (request)
EmbCall(t) ==
    /\ emb_pc[t] = "idle"
    /\ emb_calls[t] < MaxCalls
    /\ emb_calls' = [emb_calls EXCEPT ![t] = @ + 1]
    /\ emb_pc' = [emb_pc EXCEPT ![t] =
                     IF t = "startup" THEN "load_check" ELSE "embed_check"]
    /\ emb_used' = [emb_used EXCEPT ![t] = NoneVal]
    /\ UNCHANGED <<emb_model, emb_lock, emb_obj, emb_constructed>>

\* embed: if self._model is None: self.load()
EmbedCheck(t) ==
    /\ emb_pc[t] = "embed_check"
    /\ emb_pc' = [emb_pc EXCEPT ![t] =
                     IF emb_model = NoneVal THEN "load_check" ELSE "encode"]
    /\ UNCHANGED <<emb_model, emb_lock, emb_obj, emb_used, emb_constructed,
                   emb_calls>>

\* load: the check outside the lock
LoadOuterCheck(t) ==
    /\ emb_pc[t] = "load_check"
    /\ emb_pc' = [emb_pc EXCEPT ![t] =
                     IF emb_model = NoneVal THEN "acquire" ELSE AfterLoad(t)]
    /\ UNCHANGED <<emb_model, emb_lock, emb_obj, emb_used, emb_constructed,
                   emb_calls>>

\* load: with self._lock
LoadAcquire(t) ==
    /\ emb_pc[t] = "acquire"
    /\ emb_lock = NoneVal
    /\ emb_lock' = Some(t)
    /\ emb_pc' = [emb_pc EXCEPT ![t] = "inner_check"]
    /\ UNCHANGED <<emb_model, emb_obj, emb_used, emb_constructed, emb_calls>>

\* variant: no second check under the lock
InnerCheckSkipped(model) == TRUE

\* load: the check under the lock
InnerCheck(model) == model = NoneVal

LoadInnerCheck(t) ==
    /\ emb_pc[t] = "inner_check"
    /\ emb_pc' = [emb_pc EXCEPT ![t] =
                     IF InnerCheck(emb_model) THEN "construct" ELSE "release"]
    /\ UNCHANGED <<emb_model, emb_lock, emb_obj, emb_used, emb_constructed,
                   emb_calls>>

\* load: SentenceTransformer(...) returns a model, or raises; the exception
\* leaves the with block (the lock is released) and load
LoadConstruct(t, ok) ==
    /\ emb_pc[t] = "construct"
    /\ IF ok
       THEN /\ emb_constructed' = emb_constructed + 1
            /\ emb_obj' = [emb_obj EXCEPT ![t] = Some(emb_constructed + 1)]
            /\ emb_pc' = [emb_pc EXCEPT ![t] = "assign"]
            /\ UNCHANGED emb_lock
       ELSE /\ emb_lock' = NoneVal
            /\ emb_pc' = [emb_pc EXCEPT ![t] =
                             IF t = "startup" THEN "done" ELSE "raised"]
            /\ UNCHANGED <<emb_obj, emb_constructed>>
    /\ UNCHANGED <<emb_model, emb_used, emb_calls>>

\* load: self._model = the constructed model
LoadAssign(t) ==
    /\ emb_pc[t] = "assign"
    /\ emb_model' = emb_obj[t]
    /\ emb_obj' = [emb_obj EXCEPT ![t] = NoneVal]
    /\ emb_pc' = [emb_pc EXCEPT ![t] = "release"]
    /\ UNCHANGED <<emb_lock, emb_used, emb_constructed, emb_calls>>

\* load: the end of the with block, and the return
LoadRelease(t) ==
    /\ emb_pc[t] = "release"
    /\ emb_lock' = NoneVal
    /\ emb_pc' = [emb_pc EXCEPT ![t] = AfterLoad(t)]
    /\ UNCHANGED <<emb_model, emb_obj, emb_used, emb_constructed, emb_calls>>

\* embed: self._model.encode(...); on None this is an AttributeError
EmbedEncode(t) ==
    /\ emb_pc[t] = "encode"
    /\ IF emb_model = NoneVal
       THEN /\ emb_pc' = [emb_pc EXCEPT ![t] = "raised"]
            /\ UNCHANGED emb_used
       ELSE /\ emb_pc' = [emb_pc EXCEPT ![t] = "returned"]
            /\ emb_used' = [emb_used EXCEPT ![t] = emb_model]
    /\ UNCHANGED <<emb_model, emb_lock, emb_obj, emb_constructed, emb_calls>>

\* the call is over; the thread may call again
EmbFinish(t) ==
    /\ emb_pc[t] \in {"done", "returned", "raised"}
    /\ emb_calls[t] < MaxCalls
    /\ emb_pc' = [emb_pc EXCEPT ![t] = "idle"]
    /\ UNCHANGED <<emb_model, emb_lock, emb_obj, emb_used, emb_constructed,
                   emb_calls>>

(***************************************************************************)
(* Index-changing requests: api/upload.py, api/documents.py,               *)
(* api/collections.py.  A handler is one action: the handlers are          *)
(* coroutines without an await, so one runs to its return before the next  *)
(* starts.  `fail` names the call of the handler that raises, if any.      *)
(***************************************************************************)
\* the chunks ingestion makes of an uploaded document
DocumentChunks(d) ==
    SelectSeq(<<"c1", "c2", "c3", "c4">>,
              LAMBDA c : c \in {"c1", "c2", "c4"} /\ DocumentOf(c) = d)

SeqIds(seq) == {seq[i] : i \in 1..Len(seq)}

\* the characters of a collection name
NameChars(collection_name) ==
    IF collection_name = "default" THEN DefaultName
    ELSE <<"o", "t", "h", "e", "r">>

\* VectorStore.get_all_chunks: the stored chunks, in the order the
\* collection returns them
DumpsOf(ids) ==
    {b \in [1..Cardinality(ids) -> ids] :
        \A i, j \in 1..Cardinality(ids) : i # j => b[i] # b[j]}

\* the tail of add_chunks, delete_document and rebuild_from_store: the
\* lists are assigned, then _rebuild_bm25 and _save run, and either may
\* raise
StoreLists(ids, texts, metas, fail) ==
    /\ bm_ids' = ids
    /\ bm_texts' = texts
    /\ bm_metas' = metas
    /\ bm_model' = IF fail = "bm25_build" THEN bm_model
                   ELSE RebuiltModel(texts)
    /\ bm_file' = IF fail \in {"bm25_build", "bm25_save"} THEN bm_file
                  ELSE SavedFile(ids, texts, metas)

UploadFailures == {"none", "embed", "chroma_add", "bm25_build", "bm25_save"}

\* upload_document, for a file ingestion makes the chunks of document d of
upload_document(d, fail) ==
    LET chunks == [i \in 1..Len(DocumentChunks(d)) |->
                      Chunk(DocumentChunks(d)[i])]
    IN  /\ SeqIds(DocumentChunks(d)) \cap (vs_ids \cup SeqIds(bm_ids)) = {}
        /\ IF fail \in {"embed", "chroma_add"}
           THEN UNCHANGED <<vs_ids, bm_ids, bm_texts, bm_metas, bm_model,
                            bm_file, bm_op>>
           ELSE /\ vs_ids' = vs_ids \cup SeqIds(DocumentChunks(d))
                /\ StoreLists(
                      bm_ids \o [i \in 1..Len(chunks) |-> chunks[i].chunk_id],
                      bm_texts \o [i \in 1..Len(chunks) |-> chunks[i].text],
                      bm_metas \o [i \in 1..Len(chunks) |-> chunks[i].metadata],
                      fail)
                /\ bm_op' = [name |-> "add_chunks", ok |-> fail = "none"]
        /\ api_last' = [request |-> "upload",
                        outcome |-> IF fail = "none" THEN "ok" ELSE "error"]
        /\ UNCHANGED <<bm_results, bm_deleted, regVars>>

DeleteFailures == {"none", "chroma_delete", "bm25_build", "bm25_save"}

\* delete_document
delete_document(document_id, fail) ==
    LET indices_to_keep == IndicesToKeep(bm_metas, document_id)
        n == Len(indices_to_keep)
    IN  /\ IF fail = "chroma_delete"
           THEN UNCHANGED <<vs_ids, bm_ids, bm_texts, bm_metas, bm_model,
                            bm_file, bm_op>>
           ELSE /\ vs_ids' = {c \in vs_ids : DocumentOf(c) # document_id}
                /\ IF n = Len(bm_ids)
                   THEN /\ fail = "none"
                        /\ UNCHANGED <<bm_ids, bm_texts, bm_metas, bm_model,
                                       bm_file, bm_op>>
                   ELSE /\ StoreLists(
                             [p \in 1..n |-> bm_ids[indices_to_keep[p]]],
                             [p \in 1..n |-> bm_texts[indices_to_keep[p]]],
                             [p \in 1..n |-> bm_metas[indices_to_keep[p]]],
                             fail)
                        /\ bm_op' = [name |-> "delete_document",
                                     ok |-> fail = "none"]
        /\ api_last' = [request |-> "delete_document",
                        outcome |-> IF fail = "none" THEN "ok" ELSE "error"]
        /\ UNCHANGED <<bm_results, bm_deleted, regVars>>

CollectionFailures ==
    {"none", "chroma_delete", "chroma_get", "bm25_build", "bm25_save"}

\* delete_collection
delete_collection(name, fail, save_ok) ==
    /\ RegistryRemove(NameChars(name), save_ok)
    /\ IF fail = "chroma_delete"
       THEN UNCHANGED <<vs_ids, bm_ids, bm_texts, bm_metas, bm_model,
                        bm_file, bm_op>>
       ELSE LET left == {c \in vs_ids : CollectionOf(DocumentOf(c)) # name}
            IN  /\ vs_ids' = left
                /\ IF fail = "chroma_get"
                   THEN UNCHANGED <<bm_ids, bm_texts, bm_metas, bm_model,
                                    bm_file, bm_op>>
                   ELSE \E b \in DumpsOf(left) :
                          /\ StoreLists(
                                b,
                                [i \in 1..Len(b) |-> TextOf(b[i])],
                                [i \in 1..Len(b) |-> Chunk(b[i]).metadata],
                                fail)
                          /\ bm_op' = [name |-> "rebuild_from_store",
                                       ok |-> fail = "none"]
    /\ api_last' = [request |-> "delete_collection",
                    outcome |-> IF fail = "none" THEN "ok" ELSE "error"]
    /\ UNCHANGED <<bm_results, bm_deleted>>

(***************************************************************************)
(* Concurrent calls of the lexical index: services/bm25_store.py           *)
(* BM25Store has no lock.  Two threads call its mutations and one calls    *)
(* search; one action is one statement of one thread (the loop of search   *)
(* and each list comprehension are taken as one statement).                *)
(***************************************************************************)
ConcWriters == {"w1", "w2"}
ConcThreads == ConcWriters \cup {"r"}

NoLocals ==
    [op |-> "none", arg |-> <<>>, keep |-> <<>>, tok |-> <<>>,
     scores |-> <<>>, hits |-> <<>>]

ConcIdle ==
    /\ c_pc = [t \in ConcThreads |-> "idle"]
    /\ c_loc = [t \in ConcThreads |-> NoLocals]
    /\ c_ops = [t \in ConcThreads |-> 0]

\* the chunk a writer adds: ingestion gives every chunk a new id
NewChunkOf(t) == IF t = "w1" THEN "c2" ELSE "c3"

\* the dumps of the vector store a writer rebuilds from
ConcDumps == {<<>>, <<"c4">>, <<"c1", "c4">>}

\* the calls a writer makes
WriterCalls(t) ==
    {[op |-> "add_chunks", arg |-> <<NewChunkOf(t)>>]}
    \cup {[op |-> "delete_document", arg |-> <<d>>] : d \in DocumentIds}
    \cup {[op |-> "rebuild_from_store", arg |-> b] : b \in ConcDumps}

FirstStatement(op) ==
    CASE op = "add_chunks" -> "add_id"
      [] op = "delete_document" -> "del_scan"
      [] op = "rebuild_from_store" -> "rb_ids"
      [] OTHER -> "s_check"

Goto(t, label) == c_pc' = [c_pc EXCEPT ![t] = label]

\* a thread enters add_chunks, delete_document, rebuild_from_store or search
ConcCall(t, call) ==
    /\ c_pc[t] \in {"idle", "done", "raised"}
    /\ c_ops[t] < MaxOps
    /\ call.op = "add_chunks" => NewChunkOf(t) \notin SeqIds(bm_ids)
    /\ c_ops' = [c_ops EXCEPT ![t] = @ + 1]
    /\ c_loc' = [c_loc EXCEPT ![t] =
                     [NoLocals EXCEPT !.op = call.op, !.arg = call.arg]]
    /\ Goto(t, FirstStatement(call.op))
    /\ UNCHANGED <<bm_ids, bm_texts, bm_metas, bm_model, bm_file>>

\* add_chunks: self._chunk_ids.append(chunk.chunk_id)
AddId(t) ==
    /\ c_pc[t] = "add_id"
    /\ bm_ids' = Append(bm_ids, c_loc[t].arg[1])
    /\ Goto(t, "add_text")
    /\ UNCHANGED <<bm_texts, bm_metas, bm_model, bm_file, c_loc, c_ops>>

\* add_chunks: self._chunk_texts.append(chunk.text)
AddText(t) ==
    /\ c_pc[t] = "add_text"
    /\ bm_texts' = Append(bm_texts, TextOf(c_loc[t].arg[1]))
    /\ Goto(t, "add_meta")
    /\ UNCHANGED <<bm_ids, bm_metas, bm_model, bm_file, c_loc, c_ops>>

\* add_chunks: self._chunk_metadatas.append(chunk.metadata)
AddMeta(t) ==
    /\ c_pc[t] = "add_meta"
    /\ bm_metas' = Append(bm_metas, Chunk(c_loc[t].arg[1]).metadata)
    /\ Goto(t, "rebuild_read")
    /\ UNCHANGED <<bm_ids, bm_texts, bm_model, bm_file, c_loc, c_ops>>

\* delete_document: indices_to_keep = [...]
DelScan(t) ==
    /\ c_pc[t] = "del_scan"
    /\ c_loc' = [c_loc EXCEPT ![t].keep =
                     IndicesToKeep(bm_metas, c_loc[t].arg[1])]
    /\ Goto(t, "del_check")
    /\ UNCHANGED <<bm_ids, bm_texts, bm_metas, bm_model, bm_file, c_ops>>

\* delete_document: if len(indices_to_keep) == len(self._chunk_ids): return
DelCheck(t) ==
    /\ c_pc[t] = "del_check"
    /\ Goto(t, IF Len(c_loc[t].keep) = Len(bm_ids) THEN "done" ELSE "del_ids")
    /\ UNCHANGED <<bm_ids, bm_texts, bm_metas, bm_model, bm_file, c_loc, c_ops>>

\* [list[i] for i in indices_to_keep]: the new list, or <<"IndexError">>
\* wrapped as a failure when an index is out of range
Kept(list, keep) ==
    IF \E p \in 1..Len(keep) : keep[p] > Len(list)
    THEN [raised |-> TRUE, list |-> <<>>]
    ELSE [raised |-> FALSE, list |-> [p \in 1..Len(keep) |-> list[keep[p]]]]

\* delete_document: self._chunk_ids = [...]
DelIds(t) ==
    /\ c_pc[t] = "del_ids"
    /\ LET res == Kept(bm_ids, c_loc[t].keep)
       IN  IF res.raised
           THEN Goto(t, "raised") /\ UNCHANGED bm_ids
           ELSE Goto(t, "del_texts") /\ bm_ids' = res.list
    /\ UNCHANGED <<bm_texts, bm_metas, bm_model, bm_file, c_loc, c_ops>>

\* delete_document: self._chunk_texts = [...]
DelTexts(t) ==
    /\ c_pc[t] = "del_texts"
    /\ LET res == Kept(bm_texts, c_loc[t].keep)
       IN  IF res.raised
           THEN Goto(t, "raised") /\ UNCHANGED bm_texts
           ELSE Goto(t, "del_metas") /\ bm_texts' = res.list
    /\ UNCHANGED <<bm_ids, bm_metas, bm_model, bm_file, c_loc, c_ops>>

\* delete_document: self._chunk_metadatas = [...]
DelMetas(t) ==
    /\ c_pc[t] = "del_metas"
    /\ LET res == Kept(bm_metas, c_loc[t].keep)
       IN  IF res.raised
           THEN Goto(t, "raised") /\ UNCHANGED bm_metas
           ELSE Goto(t, "rebuild_read") /\ bm_metas' = res.list
    /\ UNCHANGED <<bm_ids, bm_texts, bm_model, bm_file, c_loc, c_ops>>

\* rebuild_from_store: self._chunk_ids = [...]
RbIds(t) ==
    /\ c_pc[t] = "rb_ids"
    /\ bm_ids' = c_loc[t].arg
    /\ Goto(t, "rb_texts")
    /\ UNCHANGED <<bm_texts, bm_metas, bm_model, bm_file, c_loc, c_ops>>

\* rebuild_from_store: self._chunk_texts = [...]
RbTexts(t) ==
    /\ c_pc[t] = "rb_texts"
    /\ bm_texts' = [i \in 1..Len(c_loc[t].arg) |-> TextOf(c_loc[t].arg[i])]
    /\ Goto(t, "rb_metas")
    /\ UNCHANGED <<bm_ids, bm_metas, bm_model, bm_file, c_loc, c_ops>>

\* rebuild_from_store: self._chunk_metadatas = [...]
RbMetas(t) ==
    /\ c_pc[t] = "rb_metas"
    /\ bm_metas' = [i \in 1..Len(c_loc[t].arg) |->
                       Chunk(c_loc[t].arg[i]).metadata]
    /\ Goto(t, "rebuild_read")
    /\ UNCHANGED <<bm_ids, bm_texts, bm_model, bm_file, c_loc, c_ops>>

\* _rebuild_bm25 up to the construction of BM25Okapi from the texts
RebuildRead(t) ==
    /\ c_pc[t] = "rebuild_read"
    /\ IF bm_texts = <<>>
       THEN /\ bm_model' = NoneVal
            /\ Goto(t, "save")
            /\ UNCHANGED c_loc
       ELSE /\ c_loc' = [c_loc EXCEPT ![t].tok = RebuiltModel(bm_texts)]
            /\ Goto(t, "rebuild_assign")
            /\ UNCHANGED bm_model
    /\ UNCHANGED <<bm_ids, bm_texts, bm_metas, bm_file, c_ops>>

\* _rebuild_bm25: self._bm25 = the constructed model
RebuildAssign(t) ==
    /\ c_pc[t] = "rebuild_assign"
    /\ bm_model' = c_loc[t].tok
    /\ Goto(t, "save")
    /\ UNCHANGED <<bm_ids, bm_texts, bm_metas, bm_file, c_loc, c_ops>>

\* _save, and the return of the mutation
ConcSave(t) ==
    /\ c_pc[t] = "save"
    /\ bm_file' = SavedFile(bm_ids, bm_texts, bm_metas)
    /\ Goto(t, "done")
    /\ UNCHANGED <<bm_ids, bm_texts, bm_metas, bm_model, c_loc, c_ops>>

\* search: if self._bm25 is None or not self._chunk_texts: return []
SearchCheck(t) ==
    /\ c_pc[t] = "s_check"
    /\ Goto(t, IF bm_model = NoneVal \/ bm_texts = <<>>
               THEN "done" ELSE "s_scores")
    /\ UNCHANGED <<bm_ids, bm_texts, bm_metas, bm_model, bm_file, c_loc, c_ops>>

\* search: scores = self._bm25.get_scores(query_tokens); on None this is an
\* AttributeError
SearchScores(t) ==
    /\ c_pc[t] = "s_scores"
    /\ IF bm_model = NoneVal
       THEN Goto(t, "raised") /\ UNCHANGED c_loc
       ELSE /\ \E scores \in GetScores(bm_model[1], _tokenize(c_loc[t].arg)) :
                 c_loc' = [c_loc EXCEPT ![t].scores = scores]
            /\ Goto(t, "s_collect")
    /\ UNCHANGED <<bm_ids, bm_texts, bm_metas, bm_model, bm_file, c_ops>>

\* search: the loop over the scores, the sort and the cut
SearchCollect(t) ==
    /\ c_pc[t] = "s_collect"
    /\ LET res == CollectHits(bm_ids, bm_texts, bm_metas, NoneVal, 10,
                              c_loc[t].scores)
       IN  IF res.raised
           THEN Goto(t, "raised") /\ UNCHANGED c_loc
           ELSE /\ Goto(t, "done")
                /\ c_loc' = [c_loc EXCEPT ![t].hits = res.hits]
    /\ UNCHANGED <<bm_ids, bm_texts, bm_metas, bm_model, bm_file, c_ops>>

(***************************************************************************)
(* Initial states and specifications                                       *)
(***************************************************************************)
\* no call of the segmenter in progress
SegIdle ==
    /\ seg_pc = "idle"
    /\ seg_text = <<>>
    /\ seg_size = 1
    /\ seg_overlap = 0
    /\ seg_rest = <<>>
    /\ seg_chunks = <<>>

\* a call _recursive_split(text, chunk_size, overlap) about to run
SegInputs ==
    /\ seg_pc = "start"
    /\ seg_text \in Texts
    /\ seg_size \in 1..MaxChunkSize
    /\ seg_overlap \in 0..MaxOverlap
    /\ seg_rest = <<>>
    /\ seg_chunks = <<>>

RRFIds == {"a", "b", "c"}
RRFKs == {NoneVal, Some(0), Some(1)}

RRFIdle ==
    /\ r_pc = "idle"
    /\ r_lists = <<>>
    /\ r_k = NoneVal
    /\ r_out = <<>>

RRFInputs ==
    /\ r_pc = "start"
    /\ \E m \in 0..MaxLists :
          \E lens \in [1..m -> 0..MaxListLen] :
             \E idl \in [1..m -> [1..MaxListLen -> RRFIds]] :
                r_lists = [l \in 1..m |-> [r \in 1..lens[l] |->
                               [id |-> idl[l][r], score |-> l]]]
    /\ r_k \in RRFKs
    /\ r_out = <<>>

SimVals == {-50, 100, 160, 200}
GateRRFs == {[num |-> 1, den |-> 61], [num |-> 1, den |-> 100]}
GateThresholds == {NoneVal, Some(0), Some(150), Some(200)}

GateIdle ==
    /\ g_pc = "idle"
    /\ g_chunks = <<>>
    /\ g_threshold = NoneVal
    /\ g_sim = <<>>
    /\ g_status = "unset"
    /\ g_passing = <<>>

GateInputs ==
    /\ g_pc = "start"
    /\ \E n \in 0..MaxGateChunks :
          /\ \E rs \in [1..n -> GateRRFs] :
                g_chunks = [i \in 1..n |-> [id |-> i, rrf_score |-> rs[i]]]
          /\ g_sim \in [1..n -> SimVals]
    /\ g_threshold \in GateThresholds
    /\ g_status = "unset"
    /\ g_passing = <<>>

\* the store of a process started without a persisted file
BMFresh ==
    /\ bm_ids = <<>>
    /\ bm_texts = <<>>
    /\ bm_metas = <<>>
    /\ bm_model = NoneVal
    /\ bm_file = NoFile
    /\ bm_op = [name |-> "load", ok |-> FALSE]
    /\ bm_results = <<>>
    /\ bm_deleted = {}

\* the chunks the lexical index is exercised with: two of document d1 and
\* the one of d2
IndexedChunkIds == {"c1", "c2", "c4"}

Batches ==
    {b \in UNION {[1..n -> IndexedChunkIds] : n \in 1..MaxBatch} :
        \A i, j \in 1..Len(b) : i # j => b[i] # b[j]}

\* VectorStore.get_all_chunks: the dump rebuild_from_store is given
StoreDumps ==
    {b \in UNION {[1..n -> IndexedChunkIds] : n \in 0..MaxCorpus} :
        \A i, j \in 1..Len(b) : i # j => b[i] # b[j]}

Queries == {<<"bm25", "Index">>, <<"de">>}
CollectionArgs == {NoneVal, Some("default"), Some("other")}
SearchTopKs == {1, 15}

\* no query request in progress
QueryAtRest ==
    /\ q_pc = "idle"
    /\ q_request = [question |-> <<>>, collection_name |-> Some("default"),
                    top_k |-> 5]
    /\ q_sim = <<>>
    /\ q_semantic = <<>>
    /\ q_lexical = <<>>
    /\ q_fetch_k = 0
    /\ q_results = <<>>
    /\ q_status = "unset"
    /\ q_passing = <<>>
    /\ q_embed_fail = NoneVal
    /\ q_llm_fail = FALSE
    /\ q_response = NoneVal
    /\ q_llm_called = FALSE

\* ... and nothing in the semantic index
QueryIdle == vs_ids = {} /\ QueryAtRest

\* both indices after the upload of one document with the chunks `ids`
\* (api/upload.py: vector_store.add_chunks, bm25_store.add_chunks)
Ingested(ids) ==
    LET texts == [i \in 1..Len(ids) |-> TextOf(ids[i])]
        metas == [i \in 1..Len(ids) |-> Chunk(ids[i]).metadata]
    IN  /\ bm_ids = ids
        /\ bm_texts = texts
        /\ bm_metas = metas
        /\ bm_model = RebuiltModel(texts)
        /\ bm_file = SavedFile(ids, texts, metas)
        /\ bm_op = [name |-> "add_chunks", ok |-> TRUE]
        /\ bm_results = <<>>
        /\ bm_deleted = {}
        /\ vs_ids = {ids[i] : i \in 1..Len(ids)}

\* the last one is the empty question ("" or only whitespace: no words)
Questions == {<<"bm25">>, <<"Search">>, <<"de">>, <<>>}
QueryCollections == {Some("default"), Some("other")}
TopKs == {-1, 0, 1, 2, 5}
QuerySimVals == {100, 160, 250, 300}

QueryRequests ==
    [question : Questions, collection_name : QueryCollections, top_k : TopKs]

\* the registry of a process started without a registry file
RegistryFresh ==
    /\ reg_names = {DefaultName}
    /\ reg_file = {DefaultName}
    /\ reg_last = [op |-> "init", name |-> <<>>]

ApiIdle == api_last = [request |-> "none", outcome |-> "none"]

SvcIdle == RegistryFresh /\ EmbFresh /\ ApiIdle /\ ConcIdle

\* the names the registry is called with
RegistryInputs ==
    UNION {[1..n -> NameAlphabet] : n \in 0..MaxNameLen} \cup {DefaultName}

InitRegistry ==
    RegistryFresh /\ EmbFresh /\ ApiIdle /\ ConcIdle
    /\ SegIdle /\ GateIdle /\ RRFIdle /\ BMFresh /\ QueryIdle

NextRegistry ==
    \/ \E name \in RegistryInputs, save_ok \in BOOLEAN :
          RegistryAdd(name, save_ok)
          /\ UNCHANGED <<segVars, gateVars, rrfVars, bmVars, queryVars, embVars, apiVars, concVars>>
    \/ \E name \in RegistryInputs, save_ok \in BOOLEAN :
          RegistryRemove(name, save_ok)
          /\ UNCHANGED <<segVars, gateVars, rrfVars, bmVars, queryVars, embVars, apiVars, concVars>>
    \/ \E save_ok \in BOOLEAN :
          RegistryRestart(save_ok)
          /\ UNCHANGED <<segVars, gateVars, rrfVars, bmVars, queryVars, embVars, apiVars, concVars>>

SpecRegistry == InitRegistry /\ [][NextRegistry]_vars

InitEmbed ==
    EmbFresh /\ RegistryFresh /\ ApiIdle /\ ConcIdle
    /\ SegIdle /\ GateIdle /\ RRFIdle /\ BMFresh /\ QueryIdle

NextEmbed ==
    \/ \E t \in EmbThreads : EmbCall(t)
          /\ UNCHANGED <<segVars, gateVars, rrfVars, bmVars, queryVars, regVars, apiVars, concVars>>
    \/ \E t \in EmbThreads : EmbedCheck(t)
          /\ UNCHANGED <<segVars, gateVars, rrfVars, bmVars, queryVars, regVars, apiVars, concVars>>
    \/ \E t \in EmbThreads : LoadOuterCheck(t)
          /\ UNCHANGED <<segVars, gateVars, rrfVars, bmVars, queryVars, regVars, apiVars, concVars>>
    \/ \E t \in EmbThreads : LoadAcquire(t)
          /\ UNCHANGED <<segVars, gateVars, rrfVars, bmVars, queryVars, regVars, apiVars, concVars>>
    \/ \E t \in EmbThreads : LoadInnerCheck(t)
          /\ UNCHANGED <<segVars, gateVars, rrfVars, bmVars, queryVars, regVars, apiVars, concVars>>
    \/ \E t \in EmbThreads, ok \in BOOLEAN : LoadConstruct(t, ok)
          /\ UNCHANGED <<segVars, gateVars, rrfVars, bmVars, queryVars, regVars, apiVars, concVars>>
    \/ \E t \in EmbThreads : LoadAssign(t)
          /\ UNCHANGED <<segVars, gateVars, rrfVars, bmVars, queryVars, regVars, apiVars, concVars>>
    \/ \E t \in EmbThreads : LoadRelease(t)
          /\ UNCHANGED <<segVars, gateVars, rrfVars, bmVars, queryVars, regVars, apiVars, concVars>>
    \/ \E t \in EmbThreads : EmbedEncode(t)
          /\ UNCHANGED <<segVars, gateVars, rrfVars, bmVars, queryVars, regVars, apiVars, concVars>>
    \/ \E t \in EmbThreads : EmbFinish(t)
          /\ UNCHANGED <<segVars, gateVars, rrfVars, bmVars, queryVars, regVars, apiVars, concVars>>

SpecEmbed == InitEmbed /\ [][NextEmbed]_vars

InitAPI ==
    ApiIdle /\ RegistryFresh /\ EmbFresh /\ ConcIdle
    /\ SegIdle /\ GateIdle /\ RRFIdle /\ BMFresh /\ QueryIdle

\* the variables of a query request other than the semantic index
queryRestVars ==
    <<q_pc, q_request, q_sim, q_semantic, q_lexical, q_fetch_k, q_results,
      q_status, q_passing, q_embed_fail, q_llm_fail, q_response, q_llm_called>>

NextAPI ==
    \/ \E d \in DocumentIds, fail \in UploadFailures :
          upload_document(d, fail)
          /\ UNCHANGED <<segVars, gateVars, rrfVars, queryRestVars, embVars, concVars>>
    \/ \E d \in DocumentIds, fail \in DeleteFailures :
          delete_document(d, fail)
          /\ UNCHANGED <<segVars, gateVars, rrfVars, queryRestVars, embVars, concVars>>
    \/ \E name \in {"default", "other"}, fail \in CollectionFailures,
          save_ok \in BOOLEAN :
          delete_collection(name, fail, save_ok)
          /\ UNCHANGED <<segVars, gateVars, rrfVars, queryRestVars, embVars, concVars>>

SpecAPI == InitAPI /\ [][NextAPI]_vars

\* the lexical index holds the chunks of earlier uploads
InitConc ==
    /\ \E b \in ConcDumps : Ingested(b)
    /\ QueryAtRest
    /\ ConcIdle /\ ApiIdle /\ RegistryFresh /\ EmbFresh
    /\ SegIdle /\ GateIdle /\ RRFIdle

\* what no step of a thread in the lexical index changes
concRestVars ==
    <<segVars, gateVars, rrfVars, queryVars, regVars, embVars, apiVars,
      bm_op, bm_results, bm_deleted>>

NextConc ==
    \/ \E t \in ConcWriters : \E call \in WriterCalls(t) :
          ConcCall(t, call) /\ UNCHANGED concRestVars
    \/ \E q \in Queries :
          ConcCall("r", [op |-> "search", arg |-> q]) /\ UNCHANGED concRestVars
    \/ \E t \in ConcWriters : AddId(t) /\ UNCHANGED concRestVars
    \/ \E t \in ConcWriters : AddText(t) /\ UNCHANGED concRestVars
    \/ \E t \in ConcWriters : AddMeta(t) /\ UNCHANGED concRestVars
    \/ \E t \in ConcWriters : DelScan(t) /\ UNCHANGED concRestVars
    \/ \E t \in ConcWriters : DelCheck(t) /\ UNCHANGED concRestVars
    \/ \E t \in ConcWriters : DelIds(t) /\ UNCHANGED concRestVars
    \/ \E t \in ConcWriters : DelTexts(t) /\ UNCHANGED concRestVars
    \/ \E t \in ConcWriters : DelMetas(t) /\ UNCHANGED concRestVars
    \/ \E t \in ConcWriters : RbIds(t) /\ UNCHANGED concRestVars
    \/ \E t \in ConcWriters : RbTexts(t) /\ UNCHANGED concRestVars
    \/ \E t \in ConcWriters : RbMetas(t) /\ UNCHANGED concRestVars
    \/ \E t \in ConcWriters : RebuildRead(t) /\ UNCHANGED concRestVars
    \/ \E t \in ConcWriters : RebuildAssign(t) /\ UNCHANGED concRestVars
    \/ \E t \in ConcWriters : ConcSave(t) /\ UNCHANGED concRestVars
    \/ SearchCheck("r") /\ UNCHANGED concRestVars
    \/ SearchScores("r") /\ UNCHANGED concRestVars
    \/ SearchCollect("r") /\ UNCHANGED concRestVars

SpecConc == InitConc /\ [][NextConc]_vars

InitQuery ==
    /\ SegIdle /\ GateIdle /\ RRFIdle /\ QueryAtRest /\ SvcIdle
    /\ (BMFresh /\ vs_ids = {}) \/ Ingested(<<"c1", "c2", "c3">>)

NextQuery ==
    \/ \E request \in QueryRequests, sim \in [vs_ids -> QuerySimVals] :
          QueryRetrieve(request, sim)
          /\ UNCHANGED <<segVars, gateVars, rrfVars, bmVars, svcVars>>
    \/ \E embed_fail \in {NoneVal} \cup {Some(n) : n \in 0..Len(q_results)} :
          QueryGate(embed_fail)
          /\ UNCHANGED <<segVars, gateVars, rrfVars, bmVars, svcVars>>
    \/ \E llm_fails \in BOOLEAN :
          QueryAnswer(llm_fails)
          /\ UNCHANGED <<segVars, gateVars, rrfVars, bmVars, svcVars>>

SpecQuery == InitQuery /\ [][NextQuery]_vars

InitSeg == SegInputs /\ GateIdle /\ RRFIdle /\ BMFresh /\ QueryIdle /\ SvcIdle

NextSeg ==
    \/ SegEnter /\ UNCHANGED <<gateVars, rrfVars, bmVars, queryVars, svcVars>>
    \/ SegStep /\ UNCHANGED <<gateVars, rrfVars, bmVars, queryVars, svcVars>>
    \/ SegFinish /\ UNCHANGED <<gateVars, rrfVars, bmVars, queryVars, svcVars>>

SpecSeg == InitSeg /\ [][NextSeg]_vars

InitGate == GateInputs /\ SegIdle /\ RRFIdle /\ BMFresh /\ QueryIdle /\ SvcIdle

NextGate == GateEvaluate /\ UNCHANGED <<segVars, rrfVars, bmVars, queryVars, svcVars>>

SpecGate == InitGate /\ [][NextGate]_vars

InitRRF == RRFInputs /\ SegIdle /\ GateIdle /\ BMFresh /\ QueryIdle /\ SvcIdle

NextRRF == Fuse /\ UNCHANGED <<segVars, gateVars, bmVars, queryVars, svcVars>>

SpecRRF == InitRRF /\ [][NextRRF]_vars

InitBM25 == BMFresh /\ SegIdle /\ GateIdle /\ RRFIdle /\ QueryIdle /\ SvcIdle

NextBM25 ==
    \/ \E b \in Batches :
          AddChunks([i \in 1..Len(b) |-> Chunk(b[i])])
          /\ UNCHANGED <<segVars, gateVars, rrfVars, queryVars, svcVars>>
    \/ \E d \in DocumentIds :
          DeleteDocument(d) /\ UNCHANGED <<segVars, gateVars, rrfVars, queryVars, svcVars>>
    \/ \E b \in StoreDumps :
          RebuildFromStore([i \in 1..Len(b) |->
              [id |-> b[i], text |-> TextOf(b[i]),
               metadata |-> Chunk(b[i]).metadata]])
          /\ UNCHANGED <<segVars, gateVars, rrfVars, queryVars, svcVars>>
    \/ \E q \in Queries, c \in CollectionArgs, k \in SearchTopKs :
          Search(q, c, k) /\ UNCHANGED <<segVars, gateVars, rrfVars, queryVars, svcVars>>
    \/ \E f \in BOOLEAN :
          Load(f) /\ UNCHANGED <<segVars, gateVars, rrfVars, queryVars, svcVars>>
    \/ \E kind \in FileDamages :
          DamageFile(kind) /\ UNCHANGED <<segVars, gateVars, rrfVars, queryVars, svcVars>>

SpecBM25 == InitBM25 /\ [][NextBM25]_vars

\* C5: with maxSize >= 1 and 0 <= overlap < maxSize, every iteration of the
\* split loop strictly shortens the remaining text (so the loop terminates).
C5_EachIterationShortens ==
    [][(seg_pc = "loop" /\ seg_pc' = "loop" /\ seg_overlap < seg_size)
         => Len(seg_rest') < Len(seg_rest)]_vars

\* C6: every emitted chunk except possibly the last of the returned sequence
\* has length <= maxSize, and every emitted chunk is non-empty and trimmed.
C6_ChunkSizeBound ==
    \A i \in 1..Len(seg_chunks) :
        /\ seg_chunks[i] # <<>>
        /\ Strip(seg_chunks[i]) = seg_chunks[i]
        /\ (i < Len(seg_chunks) \/ seg_pc = "loop")
              => Len(seg_chunks[i]) <= seg_size

C6_Witness ==
    /\ seg_pc = "done"
    /\ Len(seg_text) > seg_size
    /\ Len(seg_chunks) >= 3
    /\ \E i \in 1..Len(seg_chunks) - 1 : Len(seg_chunks[i]) = seg_size
    /\ \E i \in 1..Len(seg_chunks) - 1 : Len(seg_chunks[i]) < seg_size

\* none of the four boundary kinds lies within the first size characters of t
NoBoundaryWithin(t, size) ==
    \A n \in 1..4 :
        \A i \in 1..Min(size, Len(t)) :
            i + Len(boundaries[n]) - 1 <= Min(size, Len(t))
               => SubSeq(t, i, i + Len(boundaries[n]) - 1) # boundaries[n]

\* C14: in a split step where no boundary occurs within the first maxSize
\* characters of the remaining text, the chunk emitted has length exactly
\* maxSize.
C14_HardCutExact ==
    [][(/\ seg_pc = "loop" /\ seg_pc' = "loop"
        /\ NoBoundaryWithin(seg_rest, seg_size)
        /\ Len(seg_chunks') > Len(seg_chunks))
         => Len(seg_chunks'[Len(seg_chunks')]) = seg_size]_vars

\* chunk is text without its leading and trailing whitespace
IsTrimOf(chunk, text) ==
    /\ chunk # <<>>
    /\ chunk[1] \notin Whitespace
    /\ chunk[Len(chunk)] \notin Whitespace
    /\ \E a \in 0..(Len(text) - Len(chunk)) :
          /\ SubSeq(text, a + 1, a + Len(chunk)) = chunk
          /\ \A i \in 1..a : text[i] \in Whitespace
          /\ \A i \in (a + Len(chunk) + 1)..Len(text) : text[i] \in Whitespace

\* C15: segment returns the empty sequence for an empty or whitespace-only
\* text, and for any other text with len(text) <= maxSize exactly one chunk,
\* the trimmed text.
C15_BaseCases ==
    seg_pc = "done" =>
        IF \A i \in 1..Len(seg_text) : seg_text[i] \in Whitespace
        THEN seg_chunks = <<>>
        ELSE Len(seg_text) <= seg_size =>
                /\ Len(seg_chunks) = 1
                /\ IsTrimOf(seg_chunks[1], seg_text)

C15_Witness ==
    /\ seg_pc = "done"
    /\ Len(seg_text) = 3
    /\ seg_size = 3
    /\ seg_text[1] = "\t"
    /\ seg_text[3] = " "
    /\ seg_chunks = << <<"a">> >>

(***************************************************************************)
(* Relevance gate claims                                                   *)
(***************************************************************************)
\* the threshold the caller asked for: its own, or the default when none given
RequestedThreshold == IF g_threshold = NoneVal THEN 200 ELSE g_threshold[1]

\* the chunks (by position) whose combined relevance reaches the requested
\* threshold, combined being similarity plus 0.05 when rrf_score > 0.01
RequestedPassing ==
    {i \in 1..Len(g_chunks) :
        g_sim[g_chunks[i].id]
          + (IF g_chunks[i].rrf_score.num * 100 > g_chunks[i].rrf_score.den
             THEN 50 ELSE 0) >= RequestedThreshold}

\* C1: for every list of ranked chunks and threshold, evaluate returns
\* ("insufficient", []) for an empty list and exactly when no chunk passes;
\* otherwise "grounded" when passingCount/totalCount >= 0.5, else "partial".
C1_GateStatus ==
    g_pc = "done" =>
        LET n_pass == Cardinality(RequestedPassing)
            n_total == Len(g_chunks)
        IN  /\ (g_status = "insufficient" /\ g_passing = <<>>) <=> n_pass = 0
            /\ n_pass > 0 /\ 2 * n_pass >= n_total => g_status = "grounded"
            /\ n_pass > 0 /\ 2 * n_pass < n_total => g_status = "partial"

\* C2: for every threshold t the caller supplies (t = 0 included) a chunk is
\* in the passing list if and only if combined >= t; the default 0.20 is used
\* only when the caller supplies none.
C2_PassRule ==
    g_pc = "done" =>
        {g_passing[j].id : j \in 1..Len(g_passing)}
          = {g_chunks[i].id : i \in RequestedPassing}

\* C17: a non-empty passing list returned by evaluate is a sub-collection of
\* the input chunks, each carrying its computed relevance (similarity plus
\* the boost), ordered by non-increasing relevance.
C17_PassingOrder ==
    (g_pc = "done" /\ g_passing # <<>>) =>
        /\ \A j \in 1..Len(g_passing) :
              \E i \in 1..Len(g_chunks) :
                 /\ g_passing[j].id = g_chunks[i].id
                 /\ g_passing[j].rrf_score = g_chunks[i].rrf_score
                 /\ g_passing[j].relevance =
                       g_sim[g_chunks[i].id]
                         + (IF g_chunks[i].rrf_score.num * 100
                                 > g_chunks[i].rrf_score.den
                            THEN 50 ELSE 0)
        /\ \A j1, j2 \in 1..Len(g_passing) :
              j1 # j2 => g_passing[j1].id # g_passing[j2].id
        /\ \A j \in 1..Len(g_passing) - 1 :
              g_passing[j].relevance >= g_passing[j + 1].relevance

\* three of four chunks pass and the gate reorders them
C17_Witness ==
    /\ g_pc = "done"
    /\ Len(g_chunks) = 4
    /\ Len(g_passing) = 3
    /\ g_passing[1].id > g_passing[2].id
    /\ g_passing[1].relevance > g_passing[3].relevance

(***************************************************************************)
(* Fusion ranker claims                                                    *)
(***************************************************************************)
\* the input positions (list, rank) at which document id x occurs
PositionsOf(x) ==
    {lr \in (1..Len(r_lists)) \X (1..MaxListLen) :
        lr[2] <= Len(r_lists[lr[1]]) /\ r_lists[lr[1]][lr[2]].id = x}

InputIds ==
    {r_lists[l][r].id : <<l, r>> \in
        {lr \in (1..Len(r_lists)) \X (1..MaxListLen) : lr[2] <= Len(r_lists[lr[1]])}}

UsedK == IF r_k = NoneVal THEN 60 ELSE r_k[1]

\* C4: the output of fuse holds each distinct input id exactly once, the
\* rrf_score of an id is the sum of 1/(k+r) over every position r at which it
\* occurs, and the output is ordered by non-increasing rrf_score; a single
\* list [a,b,c] with k=60 gives 1/61, 1/62, 1/63 and no list or only empty
\* lists give the empty list.
C4_FuseResult ==
    r_pc = "done" =>
        /\ {r_out[p].id : p \in 1..Len(r_out)} = InputIds
        /\ Len(r_out) = Cardinality(InputIds)
        /\ \A p \in 1..Len(r_out) :
              LET s == r_out[p].rrf_score
                  pos == PositionsOf(r_out[p].id)
                  share == [lr \in pos |-> s.den \div (UsedK + lr[2])]
              IN  /\ s.den > 0
                  /\ \A lr \in pos : share[lr] * (UsedK + lr[2]) = s.den
                  /\ s.num = SumOver(pos, share)
        /\ \A p \in 1..Len(r_out) - 1 :
              /\ r_out[p].rrf_score.den = r_out[p + 1].rrf_score.den
              /\ r_out[p].rrf_score.num >= r_out[p + 1].rrf_score.num
        /\ (Len(r_lists) = 1 /\ r_k = NoneVal /\ Len(r_lists[1]) = 3
              /\ Cardinality(InputIds) = 3) =>
              /\ \A p \in 1..3 : r_out[p].id = r_lists[1][p].id
              /\ \A p \in 1..3 :
                    r_out[p].rrf_score.num * (60 + p) = r_out[p].rrf_score.den

\* an id occurring in two lists and twice in one list, fused with another id
C4_Witness ==
    /\ r_pc = "done"
    /\ Len(r_lists) = 2
    /\ Len(r_out) = 2
    /\ \E x \in InputIds : Cardinality(PositionsOf(x)) = 3
    /\ r_out[1].rrf_score.num > r_out[2].rrf_score.num
    /\ Len(r_lists[2]) = 3

\* position of document id x in the output of fuse
OutPos(x) == CHOOSE p \in 1..Len(r_out) : r_out[p].id = x

\* x occurs in exactly two input lists, at rank 1 in one and rank 2 in the other
InTwoListsAtRanks12(x) ==
    \E l1, l2 \in 1..Len(r_lists) :
        l1 # l2 /\ PositionsOf(x) = {<<l1, 1>>, <<l2, 2>>}

\* x occurs in exactly one input list, at rank 1
InOneListAtRank1(x) ==
    \E l \in 1..Len(r_lists) : PositionsOf(x) = {<<l, 1>>}

\* C16: with k = 60 a document in two input lists at ranks 1 and 2 is placed
\* before a document in only one list at rank 1.
C16_MultiListAdvantage ==
    (r_pc = "done" /\ UsedK = 60) =>
        \A a, b \in InputIds :
            (InTwoListsAtRanks12(a) /\ InOneListAtRank1(b))
               => OutPos(a) < OutPos(b)

C16_Witness ==
    /\ r_pc = "done"
    /\ r_k = NoneVal
    /\ Len(r_out) = 3
    /\ \E a, b \in InputIds :
          /\ PositionsOf(a) = {<<1, 1>>, <<2, 2>>}
          /\ PositionsOf(b) = {<<2, 1>>}
          /\ r_out[1].id = a
          /\ r_out[2].id = b

(***************************************************************************)
(* Lexical index claims                                                    *)
(***************************************************************************)
\* C7: once deleteDocument(d) has completed, no later search returns a
\* result whose metadata document id is d, until an addChunks or a
\* rebuildFromSource brings chunks of d back.
C7_DeleteThenSearch ==
    bm_op.name = "search" =>
        \A p \in 1..Len(bm_results) : \A r \in bm_deleted :
            bm_results[p].metadata.document_id # r.doc

\* a search that returns a chunk of another document after a deletion that
\* removed chunks
C7_Witness ==
    /\ bm_op.name = "search"
    /\ bm_deleted = {[doc |-> "d1", removed |-> TRUE]}
    /\ bm_results # <<>>

\* C8: in every reachable state the sequences ids, texts and metadatas have
\* equal length and position i of each refers to the same chunk.
C8_Aligned ==
    /\ Len(bm_ids) = Len(bm_texts)
    /\ Len(bm_texts) = Len(bm_metas)
    /\ \A i \in 1..Len(bm_ids) :
          /\ bm_texts[i] = TextOf(bm_ids[i])
          /\ bm_metas[i] = Chunk(bm_ids[i]).metadata

\* C9: when the persisted file is missing or its load fails at any point,
\* the index starts empty: ids, texts and metadatas are empty and there is
\* no scoring model.
C9_LoadFailureStartsEmpty ==
    (bm_op.name = "load" /\ ~bm_op.ok) =>
        /\ bm_ids = <<>>
        /\ bm_texts = <<>>
        /\ bm_metas = <<>>
        /\ bm_model = NoneVal

\* C13: after any sequence of completed addChunks, deleteDocument and
\* rebuildFromSource operations, a restart that loads the persisted file as
\* the store wrote it yields the same ids, texts and metadatas, in order.
C13_RoundTrip ==
    [][((\E f \in BOOLEAN : Load(f)) /\ bm_file.damage = "none")
         => /\ bm_ids' = bm_ids
            /\ bm_texts' = bm_texts
            /\ bm_metas' = bm_metas]_vars

\* a restart that loaded two chunks, after a deletion that removed chunks
C13_Witness ==
    /\ bm_op = [name |-> "load", ok |-> TRUE]
    /\ bm_file.damage = "none"
    /\ Len(bm_ids) = 2
    /\ \E r \in bm_deleted : r.removed

\* no entry of the index belongs to document d
AbsentFromIndex(d) ==
    /\ \A i \in 1..Len(bm_metas) : bm_metas[i].document_id # d
    /\ \A i \in 1..Len(bm_ids) : DocumentOf(bm_ids[i]) # d

\* C18: deleteDocument of a document no index entry belongs to leaves the
\* three sequences, the scoring model and the persisted file unchanged.
C18_DeleteAbsentNoOp ==
    [][\A d \in DocumentIds :
          (DeleteDocument(d) /\ AbsentFromIndex(d))
             => UNCHANGED <<bm_ids, bm_texts, bm_metas, bm_model, bm_file>>]_vars

\* C19: every entry lexical search returns has a normalized score s with
\* 0.001 < s <= 1, the raw score over the maximum raw score (or over 1); on
\* an empty corpus and for a query with no tokens the search returns the
\* empty list and raises no error.
C19_ScoreRange ==
    bm_op.name = "search" =>
        /\ \A p \in 1..Len(bm_results) :
              LET s == bm_results[p].score
              IN  /\ s.den >= 1
                  /\ 1000 * s.num > s.den
                  /\ s.num <= s.den
        /\ (bm_texts = <<>> \/ _tokenize(bm_op.query) = <<>>)
              => bm_results = <<>> /\ bm_op.ok

\* a search returning two entries, the second with a score below 1
C19_Witness ==
    /\ bm_op.name = "search"
    /\ bm_op.ok
    /\ Len(bm_results) = 2
    /\ bm_results[1].score.num = bm_results[1].score.den
    /\ bm_results[2].score.num < bm_results[2].score.den

(***************************************************************************)
(* Query pipeline claims                                                   *)
(***************************************************************************)
IdsOf(list) == [i \in 1..Len(list) |-> list[i].id]

\* the end-to-end scenario: a 3-chunk document is ingested, the lexical
\* fetch matches only chunk 2, the semantic fetch ranks chunks 1 and 3
\* highest, only chunks 1 and 3 have cosine similarity >= 0.20, and the
\* request uses the default top_k
E2EScenario ==
    /\ q_pc = "gated"
    /\ bm_ids = <<"c1", "c2", "c3">>
    /\ q_request.top_k = 5
    /\ IdsOf(q_lexical) = <<"c2">>
    /\ IdsOf(q_semantic) \in {<<"c1", "c3", "c2">>, <<"c3", "c1", "c2">>}
    /\ q_sim["c1"] >= 200
    /\ q_sim["c3"] >= 200
    /\ q_sim["c2"] < 200

SortedByRelevance(list) ==
    \A i \in 1..Len(list) - 1 : list[i].relevance >= list[i + 1].relevance

C10_ResultBound ==
    q_pc \in {"retrieved", "gated"} =>
        LET fused == reciprocal_rank_fusion(
                        SelectSeq(<<q_semantic, q_lexical>>, LAMBDA l : l # <<>>),
                        NoneVal)
            topK == q_request.top_k
        IN  /\ Len(q_results) <= Max(0, topK)
            /\ q_results = SubSeq(fused, 1, Min(Max(0, topK), Len(fused)))
            /\ q_fetch_k = Max(topK * 3, 15)
            /\ (q_semantic = <<>> /\ q_lexical = <<>>) => q_results = <<>>

\* C11: when an embedding call made during evaluate fails, the query request
\* ends in an error that reaches its caller; no status, "insufficient"
\* included, and no response is returned for it.
C11_EmbeddingFailurePropagates ==
    (q_embed_fail # NoneVal /\ q_results # <<>>) =>
        /\ q_pc = "raised"
        /\ q_status = "unset"
        /\ q_passing = <<>>
        /\ q_response = NoneVal

\* the embedding of the second of three retrieved chunks fails
C11_Witness ==
    /\ q_pc = "raised"
    /\ Len(q_results) = 3
    /\ q_embed_fail = Some(2)

\* C12: when the gate status is "grounded" or "partial" and the call to the
\* generation collaborator fails, the query returns an explicit error answer,
\* one citation per gate-passing chunk in the gate's order, and the gate
\* status unchanged.
C12_GenerationFailurePartialSuccess ==
    (q_pc = "answered" /\ q_llm_fail) =>
        /\ q_status \in {"grounded", "partial"}
        /\ q_response # NoneVal
        /\ q_response[1].answer = "llm_error"
        /\ q_response[1].crag_status = q_status
        /\ Len(q_response[1].citations) = Len(q_passing)
        /\ \A i \in 1..Len(q_passing) :
              LET cit == q_response[1].citations[i]
              IN  /\ cit.document_id = q_passing[i].metadata.document_id
                  /\ cit.chunk_text = q_passing[i].text
                  /\ cit.relevance_score = q_passing[i].relevance

\* a failed generation after a gate that passed two chunks of three
C12_Witness ==
    /\ q_pc = "answered"
    /\ q_llm_fail
    /\ Len(q_results) = 3
    /\ Len(q_passing) = 2
    /\ q_passing[1].relevance > q_passing[2].relevance

\* C20: for an empty query the pipeline raises no exception and produces an
\* empty retrieval result or gate status "insufficient", never a "grounded"
\* or "partial" answer (the embedding service being available).
C20_EmptyQuery ==
    (q_request.question = <<>> /\ q_pc # "idle" /\ q_embed_fail = NoneVal) =>
        /\ q_pc \notin {"failed", "raised"}
        /\ q_pc \in {"gated", "answered"} => q_status = "insufficient"
        /\ q_pc = "answered" => q_response[1].crag_status = "insufficient"

\* C24: the LLM is called only after the gate has returned "grounded" or
\* "partial", never for "insufficient"; an "insufficient" request is answered
\* with the fixed insufficient-information message, no citations and status
\* "insufficient".
C24_GateBeforeGeneration ==
    /\ q_llm_called => q_status \in {"grounded", "partial"}
    /\ (q_pc = "answered" /\ q_status = "insufficient") =>
          /\ ~q_llm_called
          /\ q_response = Some([answer |-> "INSUFFICIENT_RESPONSE",
                                citations |-> <<>>,
                                crag_status |-> "insufficient"])

\* an answered request whose gate rejected every one of three retrieved chunks
C24_Witness ==
    /\ q_pc = "answered"
    /\ q_status = "insufficient"
    /\ Len(q_results) = 3

(***************************************************************************)
(* Collection registry claims                                              *)
(***************************************************************************)
\* C25: every name held in the registry is trimmed, lower-cased and
\* non-empty, and for every non-blank name n, add(n) followed by remove(n)
\* leaves the registry without the normalized form of n.
C25_AddRemoveAgreement ==
    [][/\ \A n \in reg_names' :
             n # <<>> /\ Strip(n) = n /\ NameLower(n) = n
       /\ \A name \in RegistryInputs :
             (/\ reg_last = [op |-> "add", name |-> name]
              /\ Strip(name) # <<>>
              /\ \E save_ok \in BOOLEAN : RegistryRemove(name, save_ok))
                => NameLower(Strip(name)) \notin reg_names']_vars

(***************************************************************************)
(* Embedding service claims                                                *)
(***************************************************************************)
\* C23: under every interleaving of the startup thread's load and the
\* request threads' embed calls, the model is constructed at most once, and
\* every embed that returns ran on that fully constructed, assigned model;
\* no embed finds self._model unset at encode.
C23_SingleInitialization ==
    /\ emb_constructed <= 1
    /\ \A t \in EmbThreads :
          /\ emb_pc[t] = "returned" => emb_used[t] = Some(1)
          /\ emb_pc[t] = "encode" => emb_model = Some(1)

\* one thread is at the check under the lock after another thread has
\* assigned the model, and an embed has returned
C23_Witness ==
    \E t, u \in EmbThreads :
        /\ emb_pc[t] = "inner_check"
        /\ emb_model # NoneVal
        /\ emb_pc[u] = "returned"

(***************************************************************************)
(* Request claims                                                          *)
(***************************************************************************)
\* C22: after every upload, document deletion or collection deletion
\* request has returned, successfully or with an error, the lexical index
\* and the semantic index hold the same set of chunk ids.
C22_CrossIndexConsistency ==
    api_last.request \in {"upload", "delete_document", "delete_collection"}
        => SeqIds(bm_ids) = vs_ids

(***************************************************************************)
(* Concurrency claims of the lexical index                                 *)
(***************************************************************************)
\* C21: when a search runs concurrently with add_chunks, delete_document
\* or rebuild_from_store, or two of these mutations run concurrently, no
\* call fails with an index error or on a missing model, every hit of a
\* search pairs an id with that chunk's own text and metadata, and when all
\* calls have returned the index is one an execution of the mutations one
\* at a time leaves: aligned lists and the model built from these texts.
C21_NoTornRebuild ==
    /\ \A t \in ConcThreads : c_pc[t] # "raised"
    /\ c_pc["r"] = "done" =>
          \A p \in 1..Len(c_loc["r"].hits) :
             LET hit == c_loc["r"].hits[p]
             IN  /\ hit.text = TextOf(hit.id)
                 /\ hit.metadata = Chunk(hit.id).metadata
    /\ (\A t \in ConcThreads : c_pc[t] \in {"idle", "done"}) =>
          /\ Len(bm_texts) = Len(bm_ids)
          /\ Len(bm_metas) = Len(bm_ids)
          /\ \A i \in 1..Len(bm_ids) :
                /\ bm_texts[i] = TextOf(bm_ids[i])
                /\ bm_metas[i] = Chunk(bm_ids[i]).metadata
          /\ bm_model = RebuiltModel(bm_texts)
====
